---- MODULE Spec2Model ----
(***************************************************************************)
(* A model of ZolFetcher (smahoblog_automator/fetchers/zol_fetcher.py):    *)
(* the two public operations fetch_article_links and fetch_article_data.   *)
(*                                                                         *)
(* Strings are sequences of tokens (each token an indivisible chunk of     *)
(* text), so that Python's substring test, str.replace, str.startswith     *)
(* and urljoin are computed on the text and not assumed.                   *)
(***************************************************************************)
EXTENDS Integers, Sequences, FiniteSets, TLC

VARIABLES
    fn,             \* which operation is running: "none", "links" or "data"
    pc,             \* position inside the operation
    limit,          \* argument of fetch_article_links
    url,            \* local url of fetch_article_data (from line 169 on: normalised)
    retry_count,    \* local retry_count of the running retry loop
    trace,          \* history: the GETs and sleeps performed so far, in order
    slept,          \* history: total seconds slept
    response,       \* the local variable response
    first_response, \* history: the response the retry loop ended with
    parsed_from,    \* history: the response whose text line 210 parses
    title_sources,  \* the title elements of the parsed document, kept until
                    \* the body stage begins (nothing reads them later)
    collected,      \* history: len(images) when line 501 is reached
    doc_imgs,       \* the img elements read so far, kept while images is
                    \* empty (the fallback stages read the document only in
                    \* that case) and, as history, after the fallback stages
    raised,         \* history: an exception was caught by the outer try
    article_links,  \* the local list article_links
    final_url,      \* local final_url of fetch_article_data
    title,          \* local title
    content_div,    \* local content_div: whether and how a body container was found
    content_html,   \* local content_html
    images,         \* the local list images
    doc_scripts,    \* history: the script elements stage (e) read, kept
                    \* while images is empty after it
    op,             \* the helper applied on its own: "none" while a call runs
    arg,            \* the argument the helper was applied to
    out,            \* what the helper returned
    article_data,   \* the record fetch_article_data returns
    ret             \* what the call returned: "pending", "list", "None", "record"

vars == <<fn, pc, limit, url, retry_count, trace, slept, response, first_response,
          parsed_from, title_sources, collected, doc_imgs, raised, article_links,
          final_url, title, content_div, content_html, images, doc_scripts, op, arg,
          out, article_data, ret>>

-----------------------------------------------------------------------------
(* Bounds of the model *)

MaxAnchors == 3     \* anchors matched on one listing page
MaxLimit == 2       \* largest limit argument tried
MaxDivs == 1        \* div elements the body heuristic scans
MaxBodyImgs == 3    \* img elements inside the body container
MaxSrcAnchors == 2  \* body anchors with an href
MaxScripts == 1     \* script elements of the document
MaxOtherImgs == 1   \* img elements outside the body container

(* Program constants *)

max_retries == 3
retry_delay == 1
NumSelectors == 7

-----------------------------------------------------------------------------
(* Text helpers *)

Min(a, b) == IF a <= b THEN a ELSE b

Take(s, n) == SubSeq(s, 1, Min(n, Len(s)))

Drop(s, n) == SubSeq(s, n + 1, Len(s))

\* s.startswith(p)
StartsWith(s, p) == Len(s) >= Len(p) /\ SubSeq(s, 1, Len(p)) = p

\* p in s
Contains(s, p) ==
    \/ p = <<>>
    \/ \E i \in 1..(Len(s) - Len(p) + 1) :
          s[i] = p[1] /\ SubSeq(s, i, i + Len(p) - 1) = p

\* s.replace(p, r): every non-overlapping occurrence, left to right
RECURSIVE Replace(_, _, _)
Replace(s, p, r) ==
    IF s = <<>> THEN <<>>
    ELSE IF StartsWith(s, p) THEN r \o Replace(Drop(s, Len(p)), p, r)
    ELSE <<Head(s)>> \o Replace(Tail(s), p, r)

-----------------------------------------------------------------------------
(* URLs. A URL is the sequence of its atoms: words, numbers and the     *)
(* punctuation marks between them.                                         *)

SchemeNames == {"https", "http", "mailto", "data"}

HasScheme(u) == Len(u) >= 2 /\ u[1] \in SchemeNames /\ u[2] = ":"

Slashes == <<"/", "/">>

MobileHost == <<"m", ".", "zol", ".", "com", ".", "cn">>
DesktopHost == <<"news", ".", "zol", ".", "com", ".", "cn">>
SiteName == <<"zol", ".", "com", ".", "cn">>

site_url == <<"https", ":", "/", "/">> \o MobileHost \o <<"/", "mobile", "/">>

\* the longest prefix of s that holds none of the marks ending a netloc
RECURSIVE UpToPath(_)
UpToPath(s) ==
    IF s # <<>> /\ Head(s) \notin {"/", "?", "#"}
    THEN <<Head(s)>> \o UpToPath(Tail(s))
    ELSE <<>>

\* u without its scheme
SchemeOf(u) == IF HasScheme(u) THEN SubSeq(u, 1, 2) ELSE <<>>
AfterScheme(u) == IF HasScheme(u) THEN Drop(u, 2) ELSE u

\* urlsplit: the netloc of u (empty when u has no "//" part)
Netloc(u) ==
    IF StartsWith(AfterScheme(u), Slashes)
    THEN UpToPath(Drop(AfterScheme(u), 2))
    ELSE <<>>

\* urlsplit: what follows the netloc
PathOf(u) ==
    IF StartsWith(AfterScheme(u), Slashes)
    THEN Drop(AfterScheme(u), 2 + Len(Netloc(u)))
    ELSE AfterScheme(u)

\* urlsplit raises ValueError("Invalid IPv6 URL") for a netloc that holds
\* "[" without "]"
UrlJoinRaises(u) ==
    /\ \E i \in 1..Len(Netloc(u)) : Netloc(u)[i] = "["
    /\ ~\E i \in 1..Len(Netloc(u)) : Netloc(u)[i] = "]"

\* a path up to and including its last "/"
RECURSIVE DirOf(_)
DirOf(path) ==
    IF path = <<>> \/ path[Len(path)] = "/" THEN path
    ELSE DirOf(SubSeq(path, 1, Len(path) - 1))

\* urllib.parse.urljoin(base, u), for references without dot segments. A
\* reference with a scheme of its own is returned as it is, unless the scheme
\* is the base's and a relative one (http, https).
UrlJoin(base, u) ==
    LET r == AfterScheme(u)
    IN IF u = <<>> THEN base
       ELSE IF HasScheme(u) /\ (SchemeOf(u) # SchemeOf(base) \/ u[1] \notin {"http", "https"})
            THEN u
       ELSE IF r = <<>> THEN base
       ELSE IF StartsWith(r, Slashes) THEN SchemeOf(base) \o r
       ELSE IF Head(r) = "/" THEN SchemeOf(base) \o Slashes \o Netloc(base) \o r
       ELSE SchemeOf(base) \o Slashes \o Netloc(base) \o DirOf(PathOf(base)) \o r

IsHttp(u) ==
    \/ StartsWith(u, <<"http", ":", "/", "/">>)
    \/ StartsWith(u, <<"https", ":", "/", "/">>)

-----------------------------------------------------------------------------
(* fetch_article_links: the listing page *)

Https == <<"https", ":", "/", "/">>

\* hrefs of the anchors a listing page may hold
HRelA == <<"a", ".", "html">>
HAbsA == Https \o MobileHost \o <<"/", "mobile", "/", "a", ".", "html">>
HDeskB == Https \o DesktopHost \o <<"/", "article", "/", "b", ".", "html">>
HProtoC == Slashes \o MobileHost \o <<"/", "news", "/", "c", ".", "html">>
HForeign == Https \o <<"evil", ".", "com", "/", "news", "/", "?", "from", "=">> \o SiteName
HReject == Https \o MobileHost \o <<"/", "about", "/">>
HMailto == <<"mailto", ":", "a", "@">> \o SiteName \o <<"/", "news", "/">>
HBad == Slashes \o <<"[", "/", "news", "/">>

Hrefs == {HRelA, HAbsA, HDeskB, HProtoC, HForeign, HReject, HMailto, HBad}

\* where an anchor sits in the document: the structural selectors (by their
\* index in the selector list) that match it. An anchor of a curated news
\* list is matched by '.news-list a' (1); any other one by 'ul li a' (4) and
\* 'div > a' (7).
Anchors ==
    [href : {HRelA}, ctx : {{1}}] \cup [href : Hrefs, ctx : {{4, 7}}]

RECURSIVE SeqsUpTo(_, _)
SeqsUpTo(S, n) ==
    IF n = 0 THEN {<<>>}
    ELSE LET shorter == SeqsUpTo(S, n - 1)
         IN shorter \cup {Append(s, x) : s \in {t \in shorter : Len(t) = n - 1}, x \in S}

\* a listing page: its anchors in document order
ListingPages == SeqsUpTo(Anchors, MaxAnchors)

\* soup.select(selector): does the selector of index sel match the anchor
SelectorMatches(sel, a) ==
    CASE sel = 5 -> Contains(a.href, <<"/", "article", "/">>)
      [] sel = 6 -> Contains(a.href, <<"/", "index">>)
      [] OTHER -> sel \in a.ctx

\* soup.select(selector): the matching anchors (as page positions) in
\* document order
RECURSIVE SelectFrom(_, _, _)
SelectFrom(page, sel, i) ==
    IF i > Len(page) THEN <<>>
    ELSE (IF SelectorMatches(sel, page[i]) THEN <<i>> ELSE <<>>)
         \o SelectFrom(page, sel, i + 1)

\* a selector whose matches come last first (a variant of Select)
SelectBackwards(page, sel) ==
    LET found == SelectFrom(page, sel, 1)
    IN [i \in 1..Len(found) |-> found[Len(found) + 1 - i]]

Select(page, sel) == SelectFrom(page, sel, 1)

\* lines 96-100: list_items.extend(items) for each selector in list order
RECURSIVE ListItemsFrom(_, _)
ListItemsFrom(page, sel) ==
    IF sel > NumSelectors THEN <<>>
    ELSE Select(page, sel) \o ListItemsFrom(page, sel + 1)

ListItems(page) == ListItemsFrom(page, 1)

\* lines 103-109: unique_items keyed by raw href, first occurrence kept
RECURSIVE UniqueFrom(_, _, _)
UniqueFrom(page, items, seen) ==
    IF items = <<>> THEN <<>>
    ELSE LET href == page[Head(items)].href
         IN IF href # <<>> /\ href \notin seen
            THEN <<Head(items)>> \o UniqueFrom(page, Tail(items), seen \cup {href})
            ELSE UniqueFrom(page, Tail(items), seen)

UniqueItems(page) == UniqueFrom(page, ListItems(page), {})

\* lines 137-142: relative to absolute
ResolveRaises(href) ==
    IF StartsWith(href, Slashes) THEN UrlJoinRaises(href)
    ELSE IF ~IsHttp(href) THEN UrlJoinRaises(href)
    ELSE FALSE

FullUrl(href) ==
    IF StartsWith(href, Slashes) THEN UrlJoin(<<"https", ":">>, href)
    ELSE IF ~IsHttp(href) THEN UrlJoin(site_url, href)
    ELSE href

mobile_patterns ==
    {<<"/", "mobile", "/">>, <<"/", "article", "/">>, <<"/", "news", "/">>,
     <<"/", "index">>, <<"/", "cell", "_", "phone", "/">>}

\* line 147
PassesFilter(full_url) ==
    /\ Contains(full_url, SiteName)
    /\ \E p \in mobile_patterns : Contains(full_url, p)

\* lines 149-150 and 168-169, 196-197
ToMobile(u) ==
    IF Contains(u, DesktopHost) THEN Replace(u, DesktopHost, MobileHost) ELSE u

\* the two hosts letter by letter: str.replace matches at any letter, also
\* where the end of one word and the start of the next form the host
DesktopHostText ==
    <<"n", "e", "w", "s", ".", "z", "o", "l", ".", "c", "o", "m", ".", "c", "n">>
MobileHostText == <<"m", ".", "z", "o", "l", ".", "c", "o", "m", ".", "c", "n">>

\* lines 168-169 on a URL given letter by letter
ToMobileText(u) ==
    IF Contains(u, DesktopHostText) THEN Replace(u, DesktopHostText, MobileHostText)
    ELSE u

\* lines 115-152: the loop over list_items; raised tells that an exception
\* left the loop
RECURSIVE CollectLinks(_, _, _, _)
CollectLinks(page, items, acc, lim) ==
    IF items = <<>> THEN [links |-> acc, raised |-> FALSE]
    ELSE IF Len(acc) >= lim THEN [links |-> acc, raised |-> FALSE]
    ELSE LET href == page[Head(items)].href
         IN IF ResolveRaises(href) THEN [links |-> acc, raised |-> TRUE]
            ELSE IF PassesFilter(FullUrl(href))
            THEN CollectLinks(page, Tail(items), Append(acc, ToMobile(FullUrl(href))), lim)
            ELSE CollectLinks(page, Tail(items), acc, lim)

\* lines 78-161: what fetch_article_links returns for a fetched page
ParsedLinks(page, lim) ==
    IF UniqueItems(page) = <<>> THEN [links |-> <<>>, raised |-> FALSE]
    ELSE CollectLinks(page, UniqueItems(page), <<>>, lim)

-----------------------------------------------------------------------------
(* The image classifier, lines 557-721 *)

\* the numbers that occur in URLs, by their text
NumVal(a) ==
    CASE a = "00" -> 0 [] a = "2" -> 2 [] a = "4" -> 4 [] a = "5" -> 5
      [] a = "6" -> 6 [] a = "7" -> 7 [] a = "8" -> 8 [] a = "50" -> 50
      [] a = "60" -> 60 [] a = "64" -> 64 [] a = "80" -> 80 [] a = "100" -> 100
      [] a = "120" -> 120 [] a = "150" -> 150 [] a = "180" -> 180
      [] a = "200" -> 200 [] a = "240" -> 240 [] a = "300" -> 300
      [] a = "400" -> 400 [] a = "600" -> 600 [] a = "800" -> 800
      [] a = "1000" -> 1000 [] a = "2000" -> 2000
      [] OTHER -> -1

IsNum(a) == NumVal(a) >= 0

\* str.lower(), atom by atom
LowerAtom(a) ==
    CASE a = "ChMk" -> "chmk" [] a = "M" -> "m" [] a = "AAAA" -> "aaaa"
      [] a = "ICON" -> "icon" [] a = "A" -> "a" [] a = "F" -> "f"
      [] a = "Logo" -> "logo"
      [] OTHER -> a

Lower(u) == [i \in 1..Len(u) |-> LowerAtom(u[i])]

ContainsAny(u, patterns) == \E p \in patterns : Contains(u, p)

EndsWith(s, p) == Len(s) >= Len(p) /\ SubSeq(s, Len(s) - Len(p) + 1, Len(s)) = p

\* fetchers/zol_fetcher.py, lines 560-564
size_patterns ==
    {<<"t", "_", "s", "2000", "x">>, <<"t", "_", "s", "1000", "x">>,
     <<"t", "_", "s", "800", "x">>, <<"t", "_", "s", "600", "x">>,
     <<"s", "240", "x">>, <<"s", "180", "x">>, <<"s", "300", "x">>,
     <<"s", "800", "x">>, <<"s", "600", "x">>, <<"origin", "-", "img">>,
     <<"big", "-", "img">>, <<"large">>}

\* fetchers/zol_fetcher.py, lines 567-570
aspect_ratio_patterns ==
    {<<"x", "150", "c">>, <<"x", "180", "c">>, <<"c", "2", "/">>,
     <<"c", "4", "/">>, <<"c", "8", "/">>, <<"s", "50", "x", "50">>,
     <<"s", "60", "x", "60">>, <<"s", "80", "x", "80">>,
     <<"s", "100", "x", "100">>, <<"s", "120", "x", "120">>,
     <<"s", "150", "x", "150">>, <<"s", "180", "x", "180">>}

\* fetchers/zol_fetcher.py, line 577
hq_small_size_patterns ==
    {<<"s", "50", "x">>, <<"s", "60", "x">>, <<"s", "100", "x">>,
     <<"_", "50", "x">>, <<"_", "60", "x">>, <<"_", "80", "x">>,
     <<"_", "100", "x">>, <<"icon">>}

\* fetchers/zol_fetcher.py, line 582
low_quality_patterns ==
    {<<"banner">>, <<"icon">>, <<"btn">>, <<"nav">>, <<"logo">>, <<"avatar">>,
     <<"ico", "-">>, <<"ico", "_">>, <<"ico", ".">>}

\* the words of the model that end in "s" or "t": where [st] of the size
\* regex of line 592 can match
EndsInST == {"s", "t", "https", "news"}

\* line 592: re.search(r'[st]_?s?(\d+)x(\d+)', url) matched at atom i;
\* the result is <<width, height>>, or <<>> when there is no match at i
SizeMatchAt(u, i) ==
    LET j == IF i + 1 <= Len(u) /\ u[i + 1] = "_" THEN i + 2 ELSE i + 1
        k == IF j <= Len(u) /\ u[j] = "s" THEN j + 1 ELSE j
        Groups(n) ==
            IF n + 2 <= Len(u) /\ IsNum(u[n]) /\ u[n + 1] = "x" /\ IsNum(u[n + 2])
            THEN <<NumVal(u[n]), NumVal(u[n + 2])>>
            ELSE <<>>
    IN IF u[i] \notin EndsInST THEN <<>>
       ELSE IF Groups(k) # <<>> THEN Groups(k)
       ELSE Groups(j)

RECURSIVE SizeMatchFrom(_, _)
SizeMatchFrom(u, i) ==
    IF i > Len(u) THEN <<>>
    ELSE IF SizeMatchAt(u, i) # <<>> THEN SizeMatchAt(u, i)
    ELSE SizeMatchFrom(u, i + 1)

SizeMatch(u) == SizeMatchFrom(u, 1)

Max(a, b) == IF a >= b THEN a ELSE b

\* 0.9 <= max(w, h) / min(w, h) <= 1.1
NearSquare(w, h) == 10 * Max(w, h) <= 11 * Min(w, h)

\* a verdict that takes a size for large from 600 on (a variant of
\* SizeVerdict)
SizeVerdictFrom600(u) ==
    LET m == SizeMatch(u)
    IN IF m # <<>> /\ (m[1] < 120 \/ m[2] < 120) THEN FALSE
       ELSE IF m # <<>> /\ NearSquare(m[1], m[2]) /\ m[1] < 200 THEN FALSE
       ELSE IF m # <<>> /\ (m[1] >= 600 \/ m[2] >= 600) THEN TRUE
       ELSE ContainsAny(u, size_patterns)

\* lines 590-611: the verdict from the encoded size and the size tokens
SizeVerdict(u) ==
    LET m == SizeMatch(u)
    IN IF m # <<>> /\ (m[1] < 120 \/ m[2] < 120) THEN FALSE
       ELSE IF m # <<>> /\ NearSquare(m[1], m[2]) /\ m[1] < 200 THEN FALSE
       ELSE IF m # <<>> /\ (m[1] >= 300 \/ m[2] >= 300) THEN TRUE
       ELSE ContainsAny(u, size_patterns)

\* lines 557-611: _is_high_quality_image
IsHighQualityImage(u) ==
    IF ContainsAny(u, aspect_ratio_patterns) THEN FALSE
    ELSE IF ContainsAny(u, hq_small_size_patterns) THEN FALSE
    ELSE IF ContainsAny(Lower(u), low_quality_patterns) THEN FALSE
    ELSE IF Contains(u, <<"ChMk">>) \/ Contains(u, <<"/", "M", "00", "/">>) THEN TRUE
    ELSE SizeVerdict(u)

\* fetchers/zol_fetcher.py, lines 616-622
exclude_patterns ==
    {<<"icon">>, <<"logo">>, <<"avatar">>, <<"face">>, <<"user">>, <<"btn">>,
     <<"banner">>, <<"share">>, <<"footer">>, <<"header">>, <<"nav">>,
     <<"qrcode">>, <<"qrimg">>, <<"adload">>, <<"sprite">>, <<"recommend">>,
     <<"mypp", "-", "fd">>, <<"_", "50", ".", "jpg">>, <<"default", "_">>,
     <<"app", "/", "qrimg">>,
     <<"zol", "-", "img", ".", "com", ".", "cn", "/", "group">>,
     <<"lazy", "-", "icon">>, <<"ico", "-">>, <<"ico", "_">>, <<"ico", ".">>,
     <<"head", ".">>, <<"head", "-">>}

\* fetchers/zol_fetcher.py, line 629
square_patterns ==
    {<<"50", "x", "50">>, <<"60", "x", "60">>, <<"80", "x", "80">>,
     <<"100", "x", "100">>, <<"120", "x", "120">>, <<"x", "150", "c">>,
     <<"x", "180", "c">>}

\* fetchers/zol_fetcher.py, line 634
small_size_patterns ==
    {<<"_", "50", "x">>, <<"_", "80", "x">>, <<"_", "50", ".">>,
     <<"_", "60", ".">>, <<"_", "80", ".">>, <<"micro">>}

\* fetchers/zol_fetcher.py, lines 640-645
high_quality_patterns ==
    {<<"/", "t", "_", "s", "2000", "x">>, <<"/", "t", "_", "s", "1000", "x">>,
     <<"/", "g", "7", "/", "M", "00">>, <<"ChMk">>,
     <<"doc", "-", "fd", ".", "zol", "-", "img", ".", "com", ".", "cn", "/", "t", "_", "s">>,
     <<"product", "/", "gallery">>, <<"content", "-", "top", "-", "img">>,
     <<"origin", "-", "img">>, <<"big", "-", "img">>, <<"pic", "-", "large">>,
     <<"mobile">>, <<"cell", "_", "phone">>, <<"smartphone">>}

\* fetchers/zol_fetcher.py, lines 652-655
general_patterns ==
    {<<"/", "t", "_", "s">>, <<"/", "g", "7", "/">>, <<"/", "g", "5", "/">>,
     <<"/", "M", "00", "/">>, <<"zol", "-", "img">>, <<"article">>,
     <<"content">>, <<"news">>, <<"pic">>, <<"photo">>, <<"image">>}

\* fetchers/zol_fetcher.py, line 662
image_extensions ==
    {<<".", "jpg">>, <<".", "jpeg">>, <<".", "png">>, <<".", "gif">>,
     <<".", "webp">>}

\* a classifier that looks at the inclusion tokens first (a variant of
\* IsContentImage)
IsContentImageInclusionFirst(u) ==
    IF ContainsAny(u, high_quality_patterns) THEN TRUE
    ELSE IF ContainsAny(u, general_patterns) THEN TRUE
    ELSE IF ContainsAny(Lower(u), exclude_patterns) THEN FALSE
    ELSE IF ContainsAny(u, square_patterns) THEN FALSE
    ELSE IF ContainsAny(Lower(u), small_size_patterns) THEN FALSE
    ELSE \E e \in image_extensions : EndsWith(Lower(u), e)

\* lines 613-667: _is_content_image
IsContentImage(u) ==
    IF ContainsAny(Lower(u), exclude_patterns) THEN FALSE
    ELSE IF ContainsAny(u, square_patterns) THEN FALSE
    ELSE IF ContainsAny(Lower(u), small_size_patterns) THEN FALSE
    ELSE IF ContainsAny(u, high_quality_patterns) THEN TRUE
    ELSE IF ContainsAny(u, general_patterns) THEN TRUE
    ELSE \E e \in image_extensions : EndsWith(Lower(u), e)

\* lines 700-713: _is_invalid_url
IsInvalidUrl(u) ==
    \/ u = <<>>
    \/ StartsWith(u, <<"data", ":">>)
    \/ Contains(u, <<"{", "{">>) \/ Contains(u, <<"}", "}">>)
    \/ u \in {<<"none">>, <<"undefined">>, <<"null">>}

\* line 693: re.sub(r't_s\d+x\d+', size, src)
RECURSIVE SubSize(_, _)
SubSize(s, size) ==
    IF s = <<>> THEN <<>>
    ELSE IF /\ Len(s) >= 6
            /\ SubSeq(s, 1, 3) = <<"t", "_", "s">>
            /\ IsNum(s[4]) /\ s[5] = "x" /\ IsNum(s[6])
         THEN size \o SubSize(Drop(s, 6), size)
    ELSE <<Head(s)>> \o SubSize(Tail(s), size)

\* the candidates with the smallest first (a variant of upgrade_sizes)
upgrade_sizes_smallest_first ==
    << <<"t", "_", "s", "600", "x">>, <<"t", "_", "s", "800", "x">>,
       <<"t", "_", "s", "1000", "x">> >>

upgrade_sizes ==
    << <<"t", "_", "s", "1000", "x">>, <<"t", "_", "s", "800", "x">>,
       <<"t", "_", "s", "600", "x">> >>

\* lines 692-696: the first substitution that changes src
RECURSIVE FirstUpgrade(_, _)
FirstUpgrade(src, sizes) ==
    IF sizes = <<>> THEN src
    ELSE IF SubSize(src, Head(sizes)) # src THEN SubSize(src, Head(sizes))
    ELSE FirstUpgrade(src, Tail(sizes))

\* lines 688-696
UpgradeResolution(src) ==
    IF /\ Contains(src, <<"t", "_", "s">>)
       /\ ~(\/ Contains(src, <<"t", "_", "s", "800">>)
            \/ Contains(src, <<"t", "_", "s", "1000">>)
            \/ Contains(src, <<"t", "_", "s", "2000">>))
    THEN FirstUpgrade(src, upgrade_sizes)
    ELSE src

\* lines 673-676: the first attribute that holds a usable URL. Of the six
\* attributes read, an img element of the model carries src and data-src.
RECURSIVE FirstValid(_)
FirstValid(values) ==
    IF values = <<>> THEN <<>>
    ELSE IF Head(values) # <<>> /\ ~IsInvalidUrl(Head(values)) THEN Head(values)
    ELSE FirstValid(Tail(values))

\* lines 669-698: _get_valid_image_src; <<>> stands for None
GetValidImageSrc(img) ==
    LET src == FirstValid(<<img.src, img.data_src>>)
    IN IF src # <<>> THEN UpgradeResolution(src) ELSE <<>>

\* lines 715-721: _normalize_url
NormalizeUrl(u, base) ==
    IF StartsWith(u, Slashes) THEN <<"https", ":">> \o u
    ELSE IF ~IsHttp(u) THEN UrlJoin(base, u)
    ELSE u

-----------------------------------------------------------------------------
(* fetch_article_data: title, body and image collection, lines 212-507 *)

\* stands for the Japanese sentinel text of line 234 ("could not be obtained")
SentinelTitle == <<"unresolved">>

\* str.strip()
RECURSIVE LStrip(_)
LStrip(s) == IF s # <<>> /\ Head(s) = " " THEN LStrip(Tail(s)) ELSE s

RECURSIVE RStrip(_)
RStrip(s) ==
    IF s # <<>> /\ s[Len(s)] = " " THEN RStrip(SubSeq(s, 1, Len(s) - 1)) ELSE s

Strip(s) == RStrip(LStrip(s))

\* s.split(sep)[0]
RECURSIVE BeforeFirst(_, _)
BeforeFirst(s, sep) ==
    IF s = <<>> \/ StartsWith(s, sep) THEN <<>>
    ELSE <<Head(s)>> \o BeforeFirst(Tail(s), sep)

\* what follows the first occurrence of sep; s must contain sep
RECURSIVE AfterFirst(_, _)
AfterFirst(s, sep) ==
    IF StartsWith(s, sep) THEN Drop(s, Len(sep)) ELSE AfterFirst(Tail(s), sep)

\* an element that may be missing from the page
Missing == [present |-> FALSE, text |-> <<>>]
Present(text) == [present |-> TRUE, text |-> text]

NoSources == [tag |-> Missing, og |-> Missing, elem |-> Missing]

\* lines 221-236: the title from the first title selector match (tag), the
\* og:title meta tag (og) and the <title> element (elem)
ResolveTitle(t) ==
    IF t.tag.present THEN Strip(t.tag.text)
    ELSE IF t.og.present THEN Strip(t.og.text)
    ELSE IF t.elem.present THEN Strip(BeforeFirst(t.elem.text, <<"-">>))
    ELSE SentinelTitle

\* line 278: a div the heuristic scan accepts
DivQualifies(d) ==
    \/ d.has_content_class /\ d.text_length > 100
    \/ d.text_length > 300 /\ d.has_paragraph

\* lines 268-284: the accepted divs sorted by text length, longest first
\* (the sort is stable); the first one is chosen
RECURSIVE BestDiv(_, _)
BestDiv(divs, best) ==
    IF divs = <<>> THEN best
    ELSE IF DivQualifies(Head(divs))
            /\ (~best.found \/ Head(divs).text_length > best.text_length)
         THEN BestDiv(Tail(divs),
                      [found |-> TRUE, how |-> "heuristic",
                       text_length |-> Head(divs).text_length])
    ELSE BestDiv(Tail(divs), best)

NoDiv == [found |-> FALSE, how |-> "none", text_length |-> 0]

\* lines 258-285: content_div
ResolveBody(selected, divs) ==
    IF selected THEN [found |-> TRUE, how |-> "selector", text_length |-> 0]
    ELSE BestDiv(divs, NoDiv)

\* a body text left empty when no container was found (a variant of
\* ContentHtml)
ContentHtmlEmpty(div) == IF div.found THEN "body" ELSE ""

\* lines 288-298
ContentHtml(div) == IF div.found THEN "body" ELSE "placeholder"

MaxImages == 5

HasSrc(imgs, src) == \E i \in 1..Len(imgs) : imgs[i].src = src

\* the guarded append every stage uses: not any(i['src'] == src ...), then
\* images.append({'src': src, 'order': len(images), 'alt': alt})
AddIfNew(imgs, src, alt) ==
    IF HasSrc(imgs, src) THEN imgs
    ELSE Append(imgs, [src |-> src, order |-> Len(imgs), alt |-> alt])

AltOr(alt, ttl) == IF alt # <<>> THEN alt ELSE ttl

\* lines 304-314: the og:image meta tag; og is its content, <<>> when the
\* tag or the attribute is missing
StageOg(imgs, og, furl, ttl) ==
    IF og = <<>> THEN imgs
    ELSE LET src == NormalizeUrl(og, furl)
         IN IF IsContentImage(src) THEN AddIfNew(imgs, src, ttl) ELSE imgs

\* lines 331-342: the width and height attributes reject the img (0 stands
\* for a missing attribute)
SizeRejects(img) ==
    /\ img.w > 0 /\ img.h > 0
    /\ \/ img.w < 100 \/ img.h < 100
       \/ NearSquare(img.w, img.h) /\ Max(img.w, img.h) < 200

\* lines 344-353 and 385-395
AcceptBodyImg(imgs, img, furl, ttl) ==
    LET src == GetValidImageSrc(img)
        n == NormalizeUrl(src, furl)
    IN IF src # <<>> /\ IsContentImage(n) /\ IsHighQualityImage(n)
       THEN AddIfNew(imgs, n, AltOr(img.alt, ttl))
       ELSE imgs

main_img_classes ==
    << <<"content", "-", "top", "-", "img", "-", "yh">>,
       <<"content", "-", "top", "-", "img">>, <<"origin", "-", "img">>,
       <<"article", "-", "top", "-", "img">>, <<"big", "-", "img">>,
       <<"big", "-", "pic">>, <<"pic", "-", "large">> >>

\* lines 324-353: for each primary selector, the body imgs it matches
RECURSIVE StageMain(_, _, _, _, _, _)
StageMain(imgs, body, j, i, furl, ttl) ==
    IF j > Len(main_img_classes) THEN imgs
    ELSE IF i > Len(body) THEN StageMain(imgs, body, j + 1, 1, furl, ttl)
    ELSE IF body[i].cls # main_img_classes[j] \/ SizeRejects(body[i])
         THEN StageMain(imgs, body, j, i + 1, furl, ttl)
    ELSE StageMain(AcceptBodyImg(imgs, body[i], furl, ttl), body, j, i + 1, furl, ttl)

\* fetchers/zol_fetcher.py, line 363
skip_patterns ==
    {<<"icon">>, <<"logo">>, <<"avatar">>, <<"face">>, <<"user">>, <<"btn">>,
     <<"banner">>, <<"ad", "-">>, <<"recommend">>}

\* str(img): the text of the tag, its attribute values in turn
TagText(img) ==
    img.cls \o <<" ">> \o img.src \o <<" ">> \o img.data_src \o <<" ">> \o img.alt

\* line 358: the classes stage (c) skips
SkippedClass(cls) == \E j \in 1..4 : main_img_classes[j] = cls

\* lines 356-395: the other body imgs
RECURSIVE StageOther(_, _, _, _, _)
StageOther(imgs, body, i, furl, ttl) ==
    IF i > Len(body) THEN imgs
    ELSE IF \/ SkippedClass(body[i].cls)
            \/ ContainsAny(Lower(TagText(body[i])), skip_patterns)
            \/ SizeRejects(body[i])
         THEN StageOther(imgs, body, i + 1, furl, ttl)
    ELSE StageOther(AcceptBodyImg(imgs, body[i], furl, ttl), body, i + 1, furl, ttl)

\* lines 317-395
StageBody(imgs, body, furl, ttl) ==
    StageOther(StageMain(imgs, body, 1, 1, furl, ttl), body, 1, furl, ttl)

SrcMark == <<"#", "src", "=">>

\* urllib.parse.unquote, for the two escapes of the model
RECURSIVE Unquote(_)
Unquote(s) ==
    IF s = <<>> THEN <<>>
    ELSE IF StartsWith(s, <<"%", "3", "A">>) THEN <<":">> \o Unquote(Drop(s, 3))
    ELSE IF StartsWith(s, <<"%", "2", "F">>) THEN <<"/">> \o Unquote(Drop(s, 3))
    ELSE <<Head(s)>> \o Unquote(Tail(s))

\* lines 403-407: the image URL an anchor's href carries
AnchorSrc(href) ==
    LET src_part == BeforeFirst(AfterFirst(href, SrcMark), SrcMark)
        src == Unquote(src_part)
    IN IF src # <<>> /\ Head(src) = "/" THEN <<"https", ":">> \o src ELSE src

\* lines 398-416: the body anchors with a '#src=' href
RECURSIVE StageAnchors(_, _, _)
StageAnchors(imgs, anchors, ttl) ==
    IF anchors = <<>> THEN imgs
    ELSE LET a == Head(anchors)
             src == AnchorSrc(a.href)
         IN IF /\ Contains(a.href, SrcMark)
               /\ src # <<>>
               /\ IsContentImage(src) /\ IsHighQualityImage(src)
            THEN StageAnchors(AddIfNew(imgs, src, AltOr(a.text, ttl)), Tail(anchors), ttl)
            ELSE StageAnchors(imgs, Tail(anchors), ttl)

ScriptExtensions == {"jpg", "jpeg", "png", "webp"}

\* line 425: the second group of the regex, the first extension that
\* follows a "." in the URL text; <<>> when the regex does not match
RECURSIVE FirstExtension(_)
FirstExtension(s) ==
    IF Len(s) < 2 THEN <<>>
    ELSE IF s[1] = "." /\ s[2] \in ScriptExtensions THEN <<s[2]>>
    ELSE FirstExtension(Tail(s))

\* line 425: re.findall on one URL of the script text returns the two groups
\* of the pattern: the scheme with its colon (empty for a protocol-relative
\* URL) and the extension
ScriptGroups(u) ==
    LET rest == IF StartsWith(AfterScheme(u), Slashes)
                THEN Drop(AfterScheme(u), 2) ELSE <<>>
        scheme == IF HasScheme(u) /\ u[1] \in {"http", "https"}
                  THEN SchemeOf(u) ELSE <<>>
    IN IF rest = <<>> \/ FirstExtension(Tail(rest)) = <<>> THEN <<>>
       ELSE <<scheme, FirstExtension(Tail(rest))>>

\* line 428: img_url.replace('\\', '')
RemoveBackslashes(s) == SelectSeq(s, LAMBDA a : a # "\\")

\* lines 427-428
ScriptImgUrl(groups) ==
    RemoveBackslashes(IF groups[1] # <<>> THEN groups[1] \o groups[2]
                      ELSE <<"https", ":">> \o groups[2])

\* lines 426-435: the URLs found in one script
RECURSIVE ScriptUrls(_, _, _)
ScriptUrls(imgs, urls, ttl) ==
    IF urls = <<>> THEN imgs
    ELSE LET g == ScriptGroups(Head(urls))
             img_url == ScriptImgUrl(g)
         IN IF /\ g # <<>>
               /\ IsContentImage(img_url) /\ IsHighQualityImage(img_url)
            THEN ScriptUrls(AddIfNew(imgs, img_url, ttl), Tail(urls), ttl)
            ELSE ScriptUrls(imgs, Tail(urls), ttl)

\* lines 419-437: the scripts of the document; a script is its marker
\* ('var page = ' occurs in it) and the URLs its text holds
RECURSIVE StageScripts(_, _, _)
StageScripts(imgs, scripts, ttl) ==
    IF scripts = <<>> THEN imgs
    ELSE IF Head(scripts).marker
         THEN StageScripts(ScriptUrls(imgs, Head(scripts).urls, ttl), Tail(scripts), ttl)
    ELSE StageScripts(imgs, Tail(scripts), ttl)

\* fetchers/zol_fetcher.py, lines 443-450
zol_img_patterns ==
    {<<"zol", "-", "img", ".", "com", ".", "cn", "/", "t", "_", "s">>,
     <<"zol", "-", "img", ".", "com", ".", "cn", "/", "product">>,
     <<"zol", "-", "img", ".", "com", ".", "cn", "/", "g">>, <<"/", "ChMk">>,
     <<"origin", "-", "img">>, <<"big", "-", "img">>}

\* lines 453-482: the first img of the document with a site path pattern
RECURSIVE FallbackZol(_, _, _)
FallbackZol(doc, furl, ttl) ==
    IF doc = <<>> THEN <<>>
    ELSE LET img == Head(doc)
             src == GetValidImageSrc(img)
             n == NormalizeUrl(src, furl)
         IN IF /\ ~SizeRejects(img)
               /\ src # <<>>
               /\ ContainsAny(n, zol_img_patterns) /\ IsHighQualityImage(n)
            THEN AddIfNew(<<>>, n, AltOr(img.alt, ttl))
            ELSE FallbackZol(Tail(doc), furl, ttl)

\* fetchers/zol_fetcher.py, line 489
fallback_exclude ==
    {<<"icon">>, <<"logo">>, <<"avatar">>}

\* lines 487-498: the first img of the document that is no icon
RECURSIVE FallbackAny(_, _, _)
FallbackAny(doc, furl, ttl) ==
    IF doc = <<>> THEN <<>>
    ELSE LET img == Head(doc)
             src == GetValidImageSrc(img)
         IN IF src # <<>> /\ ~ContainsAny(Lower(src), fallback_exclude)
            THEN AddIfNew(<<>>, NormalizeUrl(src, furl), AltOr(img.alt, ttl))
            ELSE FallbackAny(Tail(doc), furl, ttl)

\* fallback stages of which the second runs whatever the first found (a
\* variant of StageFallback)
StageFallbackBoth(imgs, doc, furl, ttl) ==
    IF imgs # <<>> THEN imgs
    ELSE FallbackZol(doc, furl, ttl) \o FallbackAny(doc, furl, ttl)

\* lines 440-498: the two fallback stages
StageFallback(imgs, doc, furl, ttl) ==
    IF imgs # <<>> THEN imgs
    ELSE IF FallbackZol(doc, furl, ttl) # <<>> THEN FallbackZol(doc, furl, ttl)
    ELSE FallbackAny(doc, furl, ttl)

\* a cap that keeps every image (a variant of Truncate)
TruncateNothing(imgs) == imgs

\* a cap that keeps the five images accepted last (a variant of Truncate)
TruncateLast(imgs) ==
    IF Len(imgs) > MaxImages
    THEN [i \in 1..MaxImages |->
             [imgs[Len(imgs) - MaxImages + i] EXCEPT !.order = i - 1]]
    ELSE imgs

\* lines 501-507: the first five images, orders renumbered
Truncate(imgs) ==
    IF Len(imgs) > MaxImages
    THEN [i \in 1..MaxImages |-> [imgs[i] EXCEPT !.order = i - 1]]
    ELSE imgs

-----------------------------------------------------------------------------
(* What a fetched article page may hold *)

ArticleUrls == {HAbsA, HDeskB}

TitleTexts ==
    {<<>>, <<"Phone">>, <<" ", "Phone", " ">>, <<"Phone", " ", "-", " ", "ZOL">>,
     <<"-", "ZOL">>}

Elements == {Missing} \cup {Present(t) : t \in TitleTexts}

TitleSources == [tag : Elements, og : Elements, elem : Elements]

\* div elements by what the heuristic of lines 269-279 reads of them
Div(has_content_class, text_length, has_paragraph) ==
    [has_content_class |-> has_content_class, text_length |-> text_length,
     has_paragraph |-> has_paragraph]

DivKinds ==
    {Div(TRUE, 50, FALSE), Div(TRUE, 150, FALSE), Div(FALSE, 150, TRUE),
     Div(FALSE, 350, FALSE), Div(FALSE, 350, TRUE)}

DivLists == SeqsUpTo(DivKinds, MaxDivs)

ImgHost == Https \o <<"img", ".", "zol", "-", "img", ".", "com", ".", "cn">>

\* image URLs as they are written in a page
G1 == ImgHost \o <<"/", "t", "_", "s", "2000", "x", "2000", "/", "g", "7", "/", "M", "00", "/", "a", ".", "jpg">>
G2 == Slashes \o Drop(ImgHost, 4) \o <<"/", "t", "_", "s", "800", "x", "600", "/", "b", ".", "jpg">>
G3 == ImgHost \o <<"/", "t", "_", "s", "400", "x", "300", "/", "c", ".", "jpg">>
G4 == <<"pic", "/", "big", "-", "img", "/", "d", ".", "jpg">>
G5 == <<"/", "g", "5", "/", "ChMk", "5", ".", "jpg">>
G6 == ImgHost \o <<"/", "g", "5", "/", "ChMk", "6", ".", "jpg">>
G7 == ImgHost \o <<"/", "t", "_", "s", "600", "x", "400", "/", "e", ".", "jpg">>
GUser == ImgHost \o <<"/", "g", "5", "/", "user", "/", "t", "_", "s", "800", "x", "600", "/", "u", ".", "jpg">>
RIcon == Https \o <<"icon", ".", "zol", "-", "img", ".", "com", ".", "cn", "/", "t", "_", "s", "100", "x", "100", "/", "logo", ".", "png">>
RLow == Https \o <<"cdn", ".", "com", "/", "pic", "/", "f", ".", "jpg">>
DataUrl == <<"data", ":", "image", "/", "gif", ";", "base", "64", ",", "AAAA">>

OgContents == {<<>>, G1, G4, RIcon}

Img(cls, w, h, src, data_src, alt) ==
    [cls |-> cls, w |-> w, h |-> h, src |-> src, data_src |-> data_src, alt |-> alt]

\* img elements of the body: a main image by class, a captioned one with
\* size attributes, a plain one, a lazily loaded one, one whose src is the
\* og:image, one with small size attributes, one of another site, one of the
\* user area
BodyImgKinds ==
    {Img(<<"content", "-", "top", "-", "img">>, 0, 0, G2, <<>>, <<>>),
     Img(<<"big", "-", "img">>, 640, 480, G4, <<>>, <<"cap">>),
     Img(<<>>, 0, 0, G3, <<>>, <<>>),
     Img(<<>>, 0, 0, DataUrl, G6, <<>>),
     Img(<<>>, 0, 0, G1, <<>>, <<>>),
     Img(<<>>, 50, 50, G7, <<>>, <<>>),
     Img(<<>>, 0, 0, RLow, <<>>, <<>>),
     Img(<<>>, 0, 0, GUser, <<>>, <<>>)}

\* img elements outside the body
OtherImgKinds ==
    {Img(<<>>, 0, 0, RLow, <<>>, <<>>),
     Img(<<>>, 0, 0, GUser, <<>>, <<>>),
     Img(<<>>, 0, 0, RIcon, <<>>, <<>>),
     Img(<<>>, 50, 50, G7, <<>>, <<>>)}

BodyImgLists == SeqsUpTo(BodyImgKinds, MaxBodyImgs)
OtherImgLists == SeqsUpTo(OtherImgKinds, MaxOtherImgs)

PageRef == <<"pic", ".", "html">>

\* hrefs of body anchors: '#src=' followed by the quoted image URL
SrcAnchor(ref, text) == [href |-> PageRef \o ref, text |-> text]

SrcAnchorKinds ==
    {SrcAnchor(SrcMark \o <<"https", "%", "3", "A", "%", "2", "F", "%", "2", "F">>
               \o Drop(G7, 4), <<>>),
     SrcAnchor(SrcMark \o G5, <<"zoom">>),
     SrcAnchor(SrcMark \o G2, <<>>),
     SrcAnchor(SrcMark \o G4, <<>>),
     SrcAnchor(<<>>, <<>>)}
SrcAnchorLists == SeqsUpTo(SrcAnchorKinds, MaxSrcAnchors)

ScriptKinds ==
    {[marker |-> TRUE, urls |-> <<G6, G2>>],
     [marker |-> TRUE, urls |-> <<RIcon>>],
     [marker |-> FALSE, urls |-> <<G7>>]}
ScriptLists == SeqsUpTo(ScriptKinds, MaxScripts)

-----------------------------------------------------------------------------
(* The retry loops, lines 61-76 and 172-188 *)

NoResponse == [src |-> "none"]
NoRecord == [title |-> <<>>, content_html |-> "", original_url |-> <<>>,
             final_url |-> <<>>, images |-> <<>>]

linkVars == <<limit, raised, article_links>>
dataVars == <<url, parsed_from, title_sources, collected, doc_imgs, final_url, title, content_div,
              content_html, images, doc_scripts, article_data>>
loopVars == <<retry_count, trace, slept>>
helperVars == <<op, arg, out>>

Init ==
    /\ fn = "none"
    /\ pc = "idle"
    /\ limit = 0
    /\ url = <<>>
    /\ retry_count = 0
    /\ trace = <<>>
    /\ slept = 0
    /\ response = NoResponse
    /\ first_response = NoResponse
    /\ parsed_from = "none"
    /\ title_sources = NoSources
    /\ collected = 0
    /\ doc_imgs = <<>>
    /\ raised = FALSE
    /\ article_links = <<>>
    /\ final_url = <<>>
    /\ title = <<>>
    /\ content_div = NoDiv
    /\ content_html = ""
    /\ images = <<>>
    /\ doc_scripts = <<>>
    /\ op = "none"
    /\ arg = <<>>
    /\ out = <<>>
    /\ article_data = NoRecord
    /\ ret = "pending"

\* lines 56-59: fetch_article_links(limit) is called
CallLinks ==
    /\ pc = "idle"
    /\ \E l \in 1..MaxLimit : limit' = l
    /\ fn' = "links"
    /\ pc' = "get"
    /\ UNCHANGED <<response, first_response, raised, article_links, ret>>
    /\ UNCHANGED <<loopVars, dataVars>>
    /\ UNCHANGED helperVars

\* lines 163-170: fetch_article_data(url) is called; a desktop URL is
\* rewritten to the mobile host
CallData ==
    /\ pc = "idle"
    /\ \E u \in ArticleUrls : url' = ToMobile(u)
    /\ fn' = "data"
    /\ pc' = "get"
    /\ UNCHANGED doc_scripts
    /\ UNCHANGED <<response, first_response, ret, parsed_from, title_sources,
                   collected, doc_imgs, final_url, title, content_div, content_html,
                   images, article_data>>
    /\ UNCHANGED <<loopVars, linkVars>>
    /\ UNCHANGED helperVars

\* a failure that returns a record (a variant of FailureValue)
FailureValueRecord(f) == "record"

\* lines 76 and 188: what the call returns when the last attempt failed
FailureValue(f) == IF f = "links" THEN "list" ELSE "None"

\* a loop that sleeps after the last allowed attempt too (a variant of
\* RetryAgain)
RetryAgainAfterLast(rc) == rc <= max_retries

\* lines 72 and 184: after a failed attempt, is another one made
RetryAgain(rc) == rc < max_retries

\* lines 69-76 and 181-188: the GET, or raise_for_status, raises a
\* RequestException
GetFail ==
    /\ pc = "get"
    /\ retry_count < max_retries
    /\ retry_count' = retry_count + 1
    /\ trace' = Append(trace, "fail")
    /\ IF RetryAgain(retry_count + 1)
       THEN pc' = "sleep" /\ ret' = ret
       ELSE pc' = "done" /\ ret' = FailureValue(fn)
    /\ UNCHANGED <<fn, slept, response, first_response>>
    /\ UNCHANGED <<linkVars, dataVars>>
    /\ UNCHANGED helperVars

\* lines 73 and 185: time.sleep(self.retry_delay)
Sleep ==
    /\ pc = "sleep"
    /\ slept' = slept + retry_delay
    /\ trace' = Append(trace, "sleep")
    /\ pc' = "get"
    /\ UNCHANGED <<fn, retry_count, response, first_response, ret>>
    /\ UNCHANGED <<linkVars, dataVars>>
    /\ UNCHANGED helperVars

\* lines 63-68: the listing page is fetched
GetOkLinks ==
    /\ pc = "get"
    /\ fn = "links"
    /\ retry_count < max_retries
    /\ \E page \in ListingPages :
          response' = [src |-> "loop", page |-> page]
    /\ first_response' = response'
    /\ trace' = Append(trace, "ok")
    /\ pc' = "parse"
    /\ UNCHANGED <<fn, retry_count, slept, ret>>
    /\ UNCHANGED <<linkVars, dataVars>>
    /\ UNCHANGED helperVars

\* lines 78-161: the page is parsed and the links are returned
ParseLinks ==
    /\ pc = "parse"
    /\ fn = "links"
    /\ LET parsed == ParsedLinks(response.page, limit)
       IN /\ article_links' = parsed.links
          /\ raised' = parsed.raised
    /\ ret' = "list"
    /\ pc' = "done"
    /\ UNCHANGED <<fn, limit, response, first_response>>
    /\ UNCHANGED <<loopVars, dataVars>>
    /\ UNCHANGED helperVars

-----------------------------------------------------------------------------
(* fetch_article_data, lines 172-524 *)

\* the desktop form of a mobile URL: where a redirect may land
ToDesktop(u) == Replace(u, MobileHost, DesktopHost)

\* lines 175-180: the article page is fetched; response.url is the URL
\* after redirects
GetOkData ==
    /\ pc = "get"
    /\ fn = "data"
    /\ retry_count < max_retries
    /\ \E landed \in {url, ToDesktop(url)} :
          response' = [src |-> "loop", url |-> landed, status |-> 200]
    /\ first_response' = response'
    /\ trace' = Append(trace, "ok")
    /\ pc' = "final"
    /\ UNCHANGED <<fn, retry_count, slept, ret>>
    /\ UNCHANGED <<linkVars, dataVars>>
    /\ UNCHANGED helperVars

\* a re-fetch made wherever the fetch ended (a variant of NeedsRefetch)
NeedsRefetchAlways(u) == TRUE

\* line 196: is the corrective re-fetch made
NeedsRefetch(u) == Contains(u, DesktopHost)

\* lines 192-196
CheckFinal ==
    /\ pc = "final"
    /\ final_url' = response.url
    /\ pc' = IF NeedsRefetch(response.url) THEN "refetch" ELSE "title"
    /\ UNCHANGED doc_scripts
    /\ UNCHANGED <<fn, response, first_response, ret, url, parsed_from, doc_imgs,
                   title, content_div, content_html, images, article_data,
                   title_sources, collected>>
    /\ UNCHANGED <<loopVars, linkVars>>
    /\ UNCHANGED helperVars

RefetchStatuses == {200, 404}

\* lines 200-205: the re-fetch returned a response with this status
AfterRefetch(resp, furl, status) ==
    LET mobile_url == Replace(furl, DesktopHost, MobileHost)
    IN [response |-> [src |-> "refetch", url |-> mobile_url, status |-> status],
        final_url |-> IF status = 200 THEN mobile_url ELSE furl]

\* lines 197-207: the corrective re-fetch; it raises, or returns a response
Refetch ==
    /\ pc = "refetch"
    /\ trace' = Append(trace, "refetch")
    /\ \/ UNCHANGED <<response, final_url>>
       \/ \E status \in RefetchStatuses :
             /\ response' = AfterRefetch(response, final_url, status).response
             /\ final_url' = AfterRefetch(response, final_url, status).final_url
    /\ pc' = "title"
    /\ UNCHANGED doc_scripts
    /\ UNCHANGED <<fn, retry_count, slept, first_response, ret, url, parsed_from,
                   doc_imgs, title, content_div, content_html, images, article_data,
                   title_sources, collected>>
    /\ UNCHANGED linkVars
    /\ UNCHANGED helperVars

\* lines 210-239: the response text is parsed and the title resolved
ParseTitle(sources) ==
    /\ pc = "title"
    /\ parsed_from' = response.src
    /\ \E t \in sources :
          /\ title_sources' = t
          /\ title' = ResolveTitle(t)
    /\ pc' = "body"
    /\ UNCHANGED doc_scripts
    /\ UNCHANGED <<fn, response, first_response, ret, url, doc_imgs, final_url,
                   content_div, content_html, images, article_data, collected>>
    /\ UNCHANGED <<loopVars, linkVars>>
    /\ UNCHANGED helperVars

\* lines 241-298: the body container
ParseBody(divLists) ==
    /\ pc = "body"
    /\ \E selected \in BOOLEAN, divs \in divLists :
          /\ content_div' = ResolveBody(selected, divs)
          /\ content_html' = ContentHtml(ResolveBody(selected, divs))
    /\ title_sources' = NoSources
    /\ pc' = "og"
    /\ UNCHANGED doc_scripts
    /\ UNCHANGED <<fn, response, first_response, ret, url, parsed_from, doc_imgs,
                   final_url, title, images, article_data, collected>>
    /\ UNCHANGED <<loopVars, linkVars>>
    /\ UNCHANGED helperVars

\* lines 300-314
CollectOg(ogs) ==
    /\ pc = "og"
    /\ \E og \in ogs : images' = StageOg(<<>>, og, final_url, title)
    /\ pc' = "bodyimgs"
    /\ UNCHANGED doc_scripts
    /\ UNCHANGED <<fn, response, first_response, ret, url, parsed_from, doc_imgs,
                   final_url, title, content_div, content_html, article_data,
                   title_sources, collected>>
    /\ UNCHANGED <<loopVars, linkVars>>
    /\ UNCHANGED helperVars

\* lines 316-395: skipped when there is no body container
CollectBody(imgLists) ==
    /\ pc = "bodyimgs"
    /\ IF content_div.found
       THEN \E body \in imgLists :
               /\ images' = StageBody(images, body, final_url, title)
               /\ doc_imgs' = IF images' = <<>> THEN body ELSE <<>>
       ELSE UNCHANGED <<images, doc_imgs>>
    /\ pc' = "anchors"
    /\ UNCHANGED doc_scripts
    /\ UNCHANGED <<fn, response, first_response, ret, url, parsed_from,
                   final_url, title, content_div, content_html, article_data,
                   title_sources, collected>>
    /\ UNCHANGED <<loopVars, linkVars>>
    /\ UNCHANGED helperVars

\* lines 397-416: skipped when there is no body container
CollectAnchors(anchorLists) ==
    /\ pc = "anchors"
    /\ IF content_div.found
       THEN \E anchors \in anchorLists : images' = StageAnchors(images, anchors, title)
       ELSE UNCHANGED images
    /\ pc' = "scripts"
    /\ UNCHANGED doc_scripts
    /\ UNCHANGED <<fn, response, first_response, ret, url, parsed_from, doc_imgs,
                   final_url, title, content_div, content_html, article_data,
                   title_sources, collected>>
    /\ UNCHANGED <<loopVars, linkVars>>
    /\ UNCHANGED helperVars

\* lines 418-437
CollectScripts(scriptLists) ==
    /\ pc = "scripts"
    /\ \E scripts \in scriptLists :
          /\ images' = StageScripts(images, scripts, title)
          /\ doc_scripts' = IF images' = <<>> THEN scripts ELSE <<>>
    /\ pc' = "fallback"
    /\ UNCHANGED <<fn, response, first_response, ret, url, parsed_from, doc_imgs,
                   final_url, title, content_div, content_html, article_data,
                   title_sources, collected>>
    /\ UNCHANGED <<loopVars, linkVars>>
    /\ UNCHANGED helperVars

\* lines 439-498: the document's imgs are the body's and the others
CollectFallback(otherLists) ==
    /\ pc = "fallback"
    /\ IF images = <<>>
       THEN \E others \in otherLists :
               /\ images' = StageFallback(images, doc_imgs \o others, final_url, title)
               /\ doc_imgs' = doc_imgs \o others
       ELSE /\ UNCHANGED images
            /\ doc_imgs' = <<>>
    /\ doc_scripts' = <<>>
    /\ pc' = "finish"
    /\ UNCHANGED <<fn, response, first_response, ret, url, parsed_from,
                   final_url, title, content_div, content_html, article_data,
                   title_sources, collected>>
    /\ UNCHANGED <<loopVars, linkVars>>
    /\ UNCHANGED helperVars

\* lines 509-515
Record(ttl, html, original, furl, imgs) ==
    [title |-> ttl, content_html |-> html, original_url |-> original,
     final_url |-> furl, images |-> imgs]

\* lines 500-517: the list is capped and the record returned
Finish ==
    /\ pc = "finish"
    /\ collected' = Len(images)
    /\ images' = Truncate(images)
    /\ article_data' = Record(title, content_html, url, final_url, Truncate(images))
    /\ ret' = "record"
    /\ pc' = "done"
    /\ UNCHANGED doc_scripts
    /\ UNCHANGED <<fn, response, first_response, url, parsed_from, doc_imgs,
                   final_url, title, content_div, content_html, title_sources>>
    /\ UNCHANGED <<loopVars, linkVars>>
    /\ UNCHANGED helperVars

-----------------------------------------------------------------------------
(* Specifications *)

NextLinks == CallLinks \/ GetOkLinks \/ ParseLinks

NextLoop == GetFail \/ Sleep

\* in the whole-call specification a page holds at most one image candidate
\* of each kind
NextData ==
    \/ CallData \/ GetOkData \/ CheckFinal \/ Refetch
    \/ ParseTitle(TitleSources)
    \/ ParseBody(DivLists)
    \/ CollectOg({<<>>, G1})
    \/ CollectBody({<<>>, <<Img(<<>>, 0, 0, G3, <<>>, <<>>)>>})
    \/ CollectAnchors({<<>>, <<SrcAnchor(SrcMark \o G5, <<"zoom">>)>>})
    \/ CollectScripts({<<>>, <<[marker |-> TRUE, urls |-> <<G6>>]>>})
    \/ CollectFallback({<<>>, <<Img(<<>>, 0, 0, RLow, <<>>, <<>>)>>})
    \/ Finish

Next == NextLinks \/ NextLoop \/ NextData

Spec == Init /\ [][Next]_vars

\* a GET returns or raises within its timeout (lines 63 and 175), and a
\* sleep ends: an attempt that does not succeed fails, a sleep is followed
\* by the next attempt
FairSpec == Spec /\ WF_vars(NextLoop)

\* Image collection on its own: the call has fetched the page and resolved
\* title and body; pages hold every combination of image candidates.
InitImages ==
    /\ fn = "data"
    /\ pc = "og"
    /\ limit = 0
    /\ url = HAbsA
    /\ retry_count = 0
    /\ trace = <<"ok">>
    /\ slept = 0
    /\ response = [src |-> "loop", url |-> HAbsA, status |-> 200]
    /\ first_response = response
    /\ parsed_from = "loop"
    /\ title_sources = NoSources
    /\ collected = 0
    /\ doc_imgs = <<>>
    /\ raised = FALSE
    /\ article_links = <<>>
    /\ final_url = HAbsA
    /\ title = <<"Phone">>
    /\ content_div \in {NoDiv, ResolveBody(TRUE, <<>>)}
    /\ content_html = ContentHtml(content_div)
    /\ images = <<>>
    /\ doc_scripts = <<>>
    /\ op = "none"
    /\ arg = <<>>
    /\ out = <<>>
    /\ article_data = NoRecord
    /\ ret = "pending"

NextImages ==
    \/ CollectOg(OgContents)
    \/ CollectBody(BodyImgLists)
    \/ CollectAnchors(SrcAnchorLists)
    \/ CollectScripts(ScriptLists)
    \/ CollectFallback(OtherImgLists)
    \/ Finish

SpecImages == InitImages /\ [][NextImages]_vars

-----------------------------------------------------------------------------
(* The helpers on their own: a URL is drawn, then one helper is applied *)

MaxSegments == 2
MaxPieces == 3

\* what a path segment of an image URL may be: excluded words in several
\* letter cases, inclusion tokens, and size tokens of the t_s and s forms
UrlSegments ==
    {<<"icon">>, <<"ICON">>, <<"Logo">>, <<"avatar">>,
     <<"ChMk">>, <<"M", "00">>, <<"big", "-", "img">>, <<"pic">>,
     <<"t", "_", "s", "100", "x", "100">>, <<"t", "_", "s", "400", "x", "300">>,
     <<"s", "400", "x", "300">>, <<"t", "_", "s", "80", "x", "60">>,
     <<"t", "_", "s", "2000", "x", "2000">>, <<"t", "_", "s", "800", "x", "600">>,
     <<"t", "_", "s", "600", "x", "100">>}

RECURSIVE JoinPath(_)
JoinPath(segments) ==
    IF segments = <<>> THEN <<>>
    ELSE <<"/">> \o Head(segments) \o JoinPath(Tail(segments))

\* image URLs on a host that carries no token itself
ImageUrls ==
    {Https \o <<"cdn", ".", "com">> \o JoinPath(segments) \o file :
        segments \in SeqsUpTo(UrlSegments, MaxSegments),
        file \in {<<"/", "a", ".", "jpg">>, <<"/", "a">>}}

RECURSIVE Concat(_)
Concat(pieces) ==
    IF pieces = <<>> THEN <<>> ELSE Head(pieces) \o Concat(Tail(pieces))

\* URL texts, letter by letter, made of pieces of the two host names
HostTexts ==
    {Concat(pieces) :
        pieces \in SeqsUpTo({DesktopHostText, MobileHostText,
                             SubSeq(DesktopHostText, 1, 14), <<"n">>,
                             SubSeq(DesktopHostText, 2, 15), <<"/">>}, MaxPieces)}

InitHelpers ==
    /\ fn = "none"
    /\ pc = "idle"
    /\ limit = 0
    /\ url = <<>>
    /\ retry_count = 0
    /\ trace = <<>>
    /\ slept = 0
    /\ response = NoResponse
    /\ first_response = NoResponse
    /\ parsed_from = "none"
    /\ title_sources = NoSources
    /\ collected = 0
    /\ doc_imgs = <<>>
    /\ raised = FALSE
    /\ article_links = <<>>
    /\ final_url = <<>>
    /\ title = <<>>
    /\ content_div = NoDiv
    /\ content_html = ""
    /\ images = <<>>
    /\ doc_scripts = <<>>
    /\ op = "none"
    /\ arg \in ImageUrls \cup HostTexts
    /\ out = <<>>
    /\ article_data = NoRecord
    /\ ret = "pending"

callVars == <<fn, pc, response, first_response, ret, loopVars, linkVars, dataVars>>

\* lines 613-667
ApplyIsContentImage ==
    /\ op = "none" /\ arg \in ImageUrls
    /\ op' = "_is_content_image"
    /\ out' = IsContentImage(arg)
    /\ UNCHANGED <<arg, callVars>>

\* lines 557-611
ApplyIsHighQualityImage ==
    /\ op = "none" /\ arg \in ImageUrls
    /\ op' = "_is_high_quality_image"
    /\ out' = IsHighQualityImage(arg)
    /\ UNCHANGED <<arg, callVars>>

\* lines 669-698: the URL is the src attribute of an img element
ApplyGetValidImageSrc ==
    /\ op = "none" /\ arg \in ImageUrls
    /\ op' = "_get_valid_image_src"
    /\ out' = GetValidImageSrc(Img(<<>>, 0, 0, arg, <<>>, <<>>))
    /\ UNCHANGED <<arg, callVars>>

\* lines 167-169: the desktop host is rewritten to the mobile host
ApplyToMobile ==
    /\ op = "none" /\ arg \in HostTexts
    /\ op' = "to_mobile"
    /\ out' = ToMobileText(arg)
    /\ UNCHANGED <<arg, callVars>>

\* lines 167-169 applied to the URL they returned
ApplyToMobileAgain ==
    /\ op = "to_mobile"
    /\ op' = "to_mobile_again"
    /\ arg' = out
    /\ out' = ToMobileText(out)
    /\ UNCHANGED callVars

NextHelpers ==
    \/ ApplyIsContentImage \/ ApplyIsHighQualityImage \/ ApplyGetValidImageSrc
    \/ ApplyToMobile \/ ApplyToMobileAgain

SpecHelpers == InitHelpers /\ [][NextHelpers]_vars

-----------------------------------------------------------------------------
(* Properties of the retry loops *)

\* the GET attempts and the sleeps of the retry loop so far
Attempts(tr) == Cardinality({i \in 1..Len(tr) : tr[i] \in {"fail", "ok"}})
Sleeps(tr) == Cardinality({i \in 1..Len(tr) : tr[i] = "sleep"})

\* the retry loop has been left
LoopOver == pc \notin {"idle", "get", "sleep"}

\* C1: when all 3 GET attempts of fetch_article_data fail, the call is over
\* and has returned None; no document was parsed and no record was built.
C1_AllAttemptsFailReturnsNone ==
    (fn = "data" /\ Attempts(trace) = 3 /\ trace[Len(trace)] = "fail") =>
        /\ pc = "done"
        /\ ret = "None"
        /\ parsed_from = "none"
        /\ article_data = NoRecord

C1_ThreeFailures ==
    /\ fn = "data"
    /\ trace = <<"fail", "sleep", "fail", "sleep", "fail">>
    /\ ret = "None"

\* the trace of a retry loop: at most 3 attempts, nothing after a success,
\* a sleep only between a failed attempt and the next attempt, 1 second each
LoopShape ==
    /\ Attempts(trace) <= 3
    /\ \A i \in 1..Len(trace) :
          /\ trace[i] = "ok" =>
                \A j \in (i + 1)..Len(trace) : trace[j] \notin {"fail", "ok", "sleep"}
          /\ trace[i] = "sleep" =>
                /\ i > 1 /\ trace[i - 1] = "fail"
                /\ i < Len(trace) => trace[i + 1] \in {"fail", "ok"}
          /\ (trace[i] = "fail" /\ i < Len(trace)) => trace[i + 1] = "sleep"
    /\ pc = "sleep" => Attempts(trace) < 3
    /\ slept = Sleeps(trace) * 1
    /\ LoopOver =>
          /\ Attempts(trace) >= 1
          /\ Sleeps(trace) = Attempts(trace) - 1

\* C2: in both retry loops at most 3 GETs are made, the loop stops at the
\* first success, a run of k attempts makes exactly k-1 sleeps of 1 second
\* (none after the last failure), and a loop that has begun is left.
C2_RetryLoop == ([]LoopShape) /\ ((pc = "get") ~> LoopOver)

C2_ThirdAttemptSucceeds ==
    /\ fn = "data"
    /\ ret = "record"
    /\ Len(trace) >= 5
    /\ SubSeq(trace, 1, 5) = <<"fail", "sleep", "fail", "sleep", "ok">>
    /\ slept = 2

-----------------------------------------------------------------------------
(* Properties of fetch_article_links *)

\* the call fetched the listing page and has returned
LinksDone == fn = "links" /\ pc = "done" /\ first_response.src = "loop"

\* the hrefs of the anchors some selector matches, each counted once
MatchedHrefs(page) ==
    {page[i].href : i \in {j \in 1..Len(page) :
                            \E sel \in 1..NumSelectors : SelectorMatches(sel, page[j])}}
       \ {<<>>}

\* the href resolves and passes the site/path filter of line 147
Accepted(h) == ~ResolveRaises(h) /\ PassesFilter(FullUrl(h))

AcceptedHrefs(page) == {h \in MatchedHrefs(page) : Accepted(h)}

\* a URL with a scheme and a host
Absolute(u) == IsHttp(u) /\ Netloc(u) # <<>>

\* C3: for any listing page and limit L the call returns a list of min(N, L)
\* links, N the number of distinct matched hrefs that pass the filter, and
\* every returned URL has a scheme and a host.
C3_CountAndAbsolute ==
    LinksDone =>
        /\ ret = "list"
        /\ Len(article_links) = Min(Cardinality(AcceptedHrefs(first_response.page)), limit)
        /\ \A i \in 1..Len(article_links) : Absolute(article_links[i])

\* What holds of the count instead: the call returns a list of at most
\* min(N, L) links, and of exactly min(N, L) when no exception interrupted
\* the loop; every returned URL starts with a scheme, and with https:// when
\* no accepted href carries a scheme of its own.
CountWithoutException ==
    LinksDone =>
        LET N == Cardinality(AcceptedHrefs(first_response.page))
        IN /\ ret = "list"
           /\ Len(article_links) <= Min(N, limit)
           /\ ~raised => Len(article_links) = Min(N, limit)
           /\ \A i \in 1..Len(article_links) : HasScheme(article_links[i])
           /\ (\A h \in AcceptedHrefs(first_response.page) : ~HasScheme(h)) =>
                 \A i \in 1..Len(article_links) : StartsWith(article_links[i], Https)

UnderSupply ==
    /\ LinksDone
    /\ ~raised
    /\ Len(first_response.page) = 3
    /\ Cardinality(AcceptedHrefs(first_response.page)) = 1
    /\ limit = 2
    /\ Len(article_links) = 1

\* the first selector of the list that matches the anchor at position i
FirstSelector(page, i) ==
    CHOOSE sel \in 1..(NumSelectors + 1) :
        /\ sel <= NumSelectors => SelectorMatches(sel, page[i])
        /\ \A t \in 1..(sel - 1) : ~SelectorMatches(t, page[i])

\* the positions of a page in increasing order of key
RECURSIVE InOrder(_, _)
InOrder(S, key) ==
    IF S = {} THEN <<>>
    ELSE LET m == CHOOSE x \in S : \A y \in S : key[x] <= key[y]
         IN <<m>> \o InOrder(S \ {m}, key)

\* the accepted anchors, the first one of each href in the order of key
FirstAccepted(page, key) ==
    {i \in 1..Len(page) :
        /\ FirstSelector(page, i) <= NumSelectors
        /\ page[i].href # <<>>
        /\ Accepted(page[i].href)
        /\ \A j \in 1..Len(page) :
              (page[j].href = page[i].href /\ FirstSelector(page, j) <= NumSelectors)
                  => key[i] <= key[j]}

LinkUrls(page, key) ==
    LET order == InOrder(FirstAccepted(page, key), key)
    IN [k \in 1..Len(order) |-> ToMobile(FullUrl(page[order[k]].href))]

\* the order of the document, and the order of the selector list (document
\* order within one selector)
DocumentKey(page) == [i \in 1..Len(page) |-> i]
SelectorKey(page) ==
    [i \in 1..Len(page) |-> FirstSelector(page, i) * (Len(page) + 1) + i]

IsPrefix(s, t) == Len(s) <= Len(t) /\ SubSeq(t, 1, Len(s)) = s

\* every matched anchor is first matched by the same selector
OneSelector(page) ==
    \A i, j \in 1..Len(page) :
        (FirstSelector(page, i) <= NumSelectors /\ FirstSelector(page, j) <= NumSelectors)
            => FirstSelector(page, i) = FirstSelector(page, j)

\* C4 as stated: the result is the first L accepted anchors in document
\* order, whichever selectors matched them.
C4_DocumentOrder ==
    (LinksDone /\ ~raised) =>
        article_links = Take(LinkUrls(first_response.page, DocumentKey(first_response.page)), limit)

\* C4, amended: the result is the first L accepted anchors in the order of
\* the selector list (anchors of an earlier selector first, document order
\* within one selector), or a prefix of them when an exception interrupted
\* the loop; it is document order when one selector matched all anchors.
C4_SelectorOrder ==
    LinksDone =>
        LET page == first_response.page
            expected == Take(LinkUrls(page, SelectorKey(page)), limit)
        IN /\ IsPrefix(article_links, expected)
           /\ ~raised => article_links = expected
           /\ (~raised /\ OneSelector(page)) =>
                 article_links = Take(LinkUrls(page, DocumentKey(page)), limit)

C4_LaterAnchorFirst ==
    /\ LinksDone
    /\ ~raised
    /\ Len(first_response.page) = 3
    /\ Cardinality(AcceptedHrefs(first_response.page)) = 3
    /\ limit = 2
    /\ Len(article_links) = 2
    /\ article_links[1] = ToMobile(FullUrl(first_response.page[2].href))

\* C5: no two entries of a returned link list have the same url.
C5_UniqueUrls ==
    LinksDone =>
        \A i, j \in 1..Len(article_links) : i < j => article_links[i] # article_links[j]

\* the part of s before the query and the fragment
RECURSIVE UpToQuery(_)
UpToQuery(s) ==
    IF s # <<>> /\ Head(s) \notin {"?", "#"}
    THEN <<Head(s)>> \o UpToQuery(Tail(s))
    ELSE <<>>

\* the host is the site's domain or a subdomain of it
OnTargetSite(u) ==
    /\ IsHttp(u)
    /\ \/ Netloc(u) = SiteName
       \/ EndsWith(Netloc(u), <<".">> \o SiteName)

\* C6: every returned link is on a host of zol.com.cn and its path holds a
\* content-path marker; a URL on a foreign host is never returned.
C6_OnlyTargetSite ==
    LinksDone =>
        \A i \in 1..Len(article_links) :
            /\ OnTargetSite(article_links[i])
            /\ \E p \in mobile_patterns : Contains(UpToQuery(PathOf(article_links[i])), p)

\* C7: when an exception is raised while the anchors are processed, the call
\* returns an empty list, whatever had been accepted before.
C7_ExceptionYieldsEmptyList ==
    (LinksDone /\ raised) => (ret = "list" /\ article_links = <<>>)

-----------------------------------------------------------------------------
(* Properties of fetch_article_data *)

RecordReturned == fn = "data" /\ ret = "record"

Refetches(tr) == Cardinality({i \in 1..Len(tr) : tr[i] = "refetch"})

\* C8: when the fetch ended on the desktop host, one corrective re-fetch is
\* made; the record is built from its response, with the mobile URL as
\* final_url, only when it returned status 200, and from the original
\* response, with the original final URL, in every other outcome.
C8_RefetchReplacesOnlyOnSuccess ==
    (RecordReturned /\ Contains(first_response.url, DesktopHost)) =>
        /\ Refetches(trace) = 1
        /\ IF response.src = "refetch" /\ response.status = 200
           THEN /\ parsed_from = "refetch"
                /\ article_data.final_url = Replace(first_response.url, DesktopHost, MobileHost)
           ELSE /\ parsed_from = "loop"
                /\ article_data.final_url = first_response.url

\* the text a tier yields
TagTier(t) == IF t.tag.present THEN Strip(t.tag.text) ELSE <<>>
OgTier(t) == IF t.og.present THEN Strip(t.og.text) ELSE <<>>
ElemTier(t) == IF t.elem.present THEN Strip(BeforeFirst(t.elem.text, <<"-">>)) ELSE <<>>

\* the first tier that yields text, the sentinel when none does
TieredTitle(t) ==
    IF TagTier(t) # <<>> THEN TagTier(t)
    ELSE IF OgTier(t) # <<>> THEN OgTier(t)
    ELSE IF ElemTier(t) # <<>> THEN ElemTier(t)
    ELSE SentinelTitle

\* C9: the title is the text of the first tier (selector match, og:title,
\* <title> before the first '-') that yields non-empty text, and the
\* sentinel when none does; a returned record never has an empty title.
C9_TitleNeverEmpty ==
    /\ (fn = "data" /\ pc = "body") => title = TieredTitle(title_sources)
    /\ RecordReturned => article_data.title # <<>>

\* C10: the images of a returned record are at most 5, no two have the same
\* src, and the entry at index i (counted from 0) has order i.
C10_ImagesCappedUniqueOrdered ==
    RecordReturned =>
        LET imgs == article_data.images
        IN /\ Len(imgs) <= 5
           /\ \A i, j \in 1..Len(imgs) : i # j => imgs[i].src # imgs[j].src
           /\ \A i \in 1..Len(imgs) : imgs[i].order = i - 1

C10_TruncatedRecord ==
    /\ RecordReturned
    /\ collected = 6
    /\ Len(article_data.images) = 5

\* C21: one call of fetch_article_data issues at most 4 GETs: at most 3 in
\* the retry loop and at most 1 corrective re-fetch. The re-fetch directly
\* follows the successful attempt of the loop, which ended on the desktop
\* host, and no GET follows it; whether it raises, returns another status
\* or succeeds, the call goes on and returns a record, never None.
C21_AtMostFourGets ==
    fn = "data" =>
        /\ Attempts(trace) <= 3
        /\ Refetches(trace) <= 1
        /\ Attempts(trace) + Refetches(trace) <= 4
        /\ \A i \in 1..Len(trace) :
              trace[i] = "refetch" =>
                 /\ i > 1 /\ trace[i - 1] = "ok"
                 /\ i = Len(trace)
                 /\ Contains(first_response.url, DesktopHost)
                 /\ ret # "None"
                 /\ pc = "done" => ret = "record"

C21_FourthGetFailed ==
    /\ RecordReturned
    /\ Attempts(trace) = 3
    /\ Refetches(trace) = 1
    /\ ~(response.src = "refetch" /\ response.status = 200)

-----------------------------------------------------------------------------
(* Properties of the image stages *)

\* the first n entries of a list, numbered from 0
KeptPrefix(imgs, n) ==
    [i \in 1..Min(n, Len(imgs)) |->
        [src |-> imgs[i].src, order |-> i - 1, alt |-> imgs[i].alt]]

\* C11: the stages run in the order og:image, body images, '#src=' anchors,
\* script URLs and each only appends to the list, so an image accepted
\* later never displaces an earlier one; when more than 5 were accepted the
\* record holds exactly the first 5 in that order, with order 0..4.
C11_FirstFiveKept ==
    [][/\ pc \in {"bodyimgs", "anchors", "scripts"} => IsPrefix(images, images')
       /\ pc = "finish" => article_data'.images = KeptPrefix(images, 5)]_vars

C11_SixthDropped ==
    /\ RecordReturned
    /\ collected = 6
    /\ Len(article_data.images) = 5
    /\ article_data.images[1].src = G1
    /\ article_data.images[5].alt = <<"zoom">>

\* C12: every src in a returned record is an absolute URL, a scheme
\* followed by '//' and a host, whichever stage accepted it.
C12_AbsoluteSrc ==
    RecordReturned =>
        \A i \in 1..Len(article_data.images) : Absolute(article_data.images[i].src)

\* an image URL of a script as stage (e) is to store it: backslashes
\* stripped, 'https:' added when the scheme is missing
FullScriptUrl(u) ==
    LET v == RemoveBackslashes(u)
    IN IF StartsWith(v, Slashes) THEN <<"https", ":">> \o v ELSE v

\* C17: after stage (e), every image URL embedded in a script that holds
\* 'var page = ' and passing both classifiers is in the list as a full URL
\* (appended by the stage when it was not there yet).
C17_ScriptUrlsAppended ==
    (fn = "data" /\ pc = "fallback") =>
        \A k \in 1..Len(doc_scripts) :
            doc_scripts[k].marker =>
                \A n \in 1..Len(doc_scripts[k].urls) :
                    LET full == FullScriptUrl(doc_scripts[k].urls[n])
                    IN (IsContentImage(full) /\ IsHighQualityImage(full))
                          => \E i \in 1..Len(images) : images[i].src = full

\* the src stages (f) and (g) store for an img element
FallbackSrc(img, furl) == NormalizeUrl(GetValidImageSrc(img), furl)

\* the img elements stage (f) accepts, and those stage (g) accepts
ZolMatches(doc, furl) ==
    {i \in 1..Len(doc) :
        /\ ~SizeRejects(doc[i])
        /\ GetValidImageSrc(doc[i]) # <<>>
        /\ ContainsAny(FallbackSrc(doc[i], furl), zol_img_patterns)
        /\ IsHighQualityImage(FallbackSrc(doc[i], furl))}
AnyMatches(doc) ==
    {i \in 1..Len(doc) :
        /\ GetValidImageSrc(doc[i]) # <<>>
        /\ ~ContainsAny(Lower(GetValidImageSrc(doc[i])), {<<"icon">>, <<"logo">>, <<"avatar">>})}

\* the single entry made of the first of the matching elements
FirstOf(doc, matches, furl, ttl) ==
    LET i == CHOOSE m \in matches : \A n \in matches : m <= n
    IN <<[src |-> FallbackSrc(doc[i], furl), order |-> 0,
          alt |-> IF doc[i].alt # <<>> THEN doc[i].alt ELSE ttl]>>

\* C18: the fallback stages leave a list that stages (a)-(e) filled as it
\* is; on an empty list stage (f) adds the first img of the document that
\* matches it and nothing more, stage (g) runs only when (f) found none and
\* adds the first img that is no icon, logo or avatar. After them the list
\* holds either the images of (a)-(e) or at most one fallback image.
\* (doc_imgs is not empty after the fallback step exactly when the stages
\* read a document with img elements.)
C18_FallbackOnlyWhenEmpty ==
    /\ [][(pc = "fallback" /\ images # <<>>) => images' = images]_vars
    /\ [][(pc = "fallback" /\ images = <<>>) => Len(images') <= 1]_vars
    /\ []((fn = "data" /\ pc = "finish" /\ doc_imgs # <<>>) =>
            LET f == ZolMatches(doc_imgs, final_url)
                g == AnyMatches(doc_imgs)
            IN IF f # {} THEN images = FirstOf(doc_imgs, f, final_url, title)
               ELSE IF g # {} THEN images = FirstOf(doc_imgs, g, final_url, title)
               ELSE images = <<>>)

C18_SecondFallbackImage ==
    /\ fn = "data" /\ pc = "finish"
    /\ Len(doc_imgs) >= 2
    /\ ZolMatches(doc_imgs, final_url) = {}
    /\ {1, 2} \subseteq AnyMatches(doc_imgs)
    /\ FallbackSrc(doc_imgs[1], final_url) # FallbackSrc(doc_imgs[2], final_url)
    /\ Len(images) = 1
    /\ images[1].src = FallbackSrc(doc_imgs[1], final_url)

\* the page was fetched and parsed, and no body container was found
NoBodyFound == fn = "data" /\ parsed_from # "none" /\ ~content_div.found

-----------------------------------------------------------------------------
(* Properties of the helpers *)

\* C13: _is_content_image returns false for every URL that contains 'icon',
\* 'logo' or 'avatar' in any letter case, whatever inclusion token or
\* extension it also has: the exclusion checks come before the inclusion
\* checks.
C13_ExcludedWordsRejected ==
    (/\ op = "_is_content_image"
     /\ ContainsAny(Lower(arg), {<<"icon">>, <<"logo">>, <<"avatar">>}))
        => out = FALSE

C13_LogoWithInclusionToken ==
    /\ op = "_is_content_image"
    /\ Contains(arg, <<"Logo">>)
    /\ Contains(arg, <<"ChMk">>)
    /\ EndsWith(arg, <<".", "jpg">>)
    /\ out = FALSE

\* the sizes <W>x<H> written in a URL
SizePairs(u) ==
    {<<NumVal(u[i]), NumVal(u[i + 2])>> :
        i \in {n \in 1..(Len(u) - 2) : IsNum(u[n]) /\ u[n + 1] = "x" /\ IsNum(u[n + 2])}}

\* a URL has one of the tokens _is_high_quality_image excludes
HasExclusionToken(u) ==
    \/ ContainsAny(u, aspect_ratio_patterns \cup hq_small_size_patterns)
    \/ ContainsAny(Lower(u), low_quality_patterns)

\* C14: _is_high_quality_image returns false for a URL whose size token is
\* 100x100 (t_s100x100), and true for a URL whose size token is 400x300
\* (t_s400x300, s400x300) and that has no exclusion token.
C14_SizeTokenVerdict ==
    op = "_is_high_quality_image" =>
        /\ Contains(arg, <<"s", "100", "x", "100">>) => out = FALSE
        /\ (SizePairs(arg) = {<<400, 300>>} /\ ~HasExclusionToken(arg)) => out = TRUE

C14_Accepted400x300 ==
    /\ op = "_is_high_quality_image"
    /\ Contains(arg, <<"t", "_", "s", "400", "x", "300">>)
    /\ ~Contains(arg, <<"ChMk">>) /\ ~Contains(arg, <<"M", "00">>)
    /\ ~Contains(arg, <<"big", "-", "img">>)
    /\ out = TRUE

\* the t_s<W>x<H> tokens of a URL
TsTokens(u) ==
    {SubSeq(u, i, i + 5) :
        i \in {n \in 1..(Len(u) - 5) :
                  /\ SubSeq(u, n, n + 2) = <<"t", "_", "s">>
                  /\ IsNum(u[n + 3]) /\ u[n + 4] = "x" /\ IsNum(u[n + 5])}}

\* every one of the tokens replaced by the same text
RECURSIVE ReplaceEach(_, _, _)
ReplaceEach(u, tokens, by) ==
    IF tokens = {} THEN u
    ELSE LET t == CHOOSE x \in tokens : TRUE
         IN ReplaceEach(Replace(u, t, by), tokens \ {t}, by)

C16_ToMobileIdempotent ==
    /\ op \in {"to_mobile", "to_mobile_again"} => ~Contains(out, DesktopHostText)
    /\ op = "to_mobile_again" => out = arg

\* C19: _is_high_quality_image returns false for every URL that encodes a
\* size whose width or height is below 120, also when the URL contains
\* 'ChMk' or '/M00/' or a large-size token.
C19_SmallSizeRejected ==
    (/\ op = "_is_high_quality_image"
     /\ \E p \in SizePairs(arg) : p[1] < 120 \/ p[2] < 120)
        => out = FALSE

====
